---- MODULE Spec2Model ----
(***************************************************************************)
(* Model of cnvlib/reference.py: combine_probes (the pooled reference      *)
(* builder), its closures shift_sex_chroms and bias_correct_coverage, and  *)
(* the sequence composition helpers get_fasta_stats / calculate_gc_lo.     *)
(*                                                                         *)
(* Number representation.  log2 values are fixed-point integers counted in *)
(* halves of a log2 unit (L(1) = 2 stands for 1.0); coverage files carry   *)
(* whole log2 values, so the median of any number of them is exact.  The   *)
(* pooled centres are kept at twice that resolution (quarters), so the     *)
(* midpoint of two pooled values is exact.  Depth values are fixed-point   *)
(* with -NULL_LOG2_COVERAGE fractional bits, so 2^log2 is exact for every  *)
(* log2 >= NULL_LOG2_COVERAGE.  Fractions (gc, rmask, edge bias) are       *)
(* records [num, den] with den > 0; 0.0 is [num |-> 0, den |-> 1].         *)
(***************************************************************************)
EXTENDS Integers, Sequences, FiniteSets, TLC

VARIABLES
    \* arguments of combine_probes
    filenames,          \* the coverage tables behind the file names, in input order
    fa_fname,           \* None, or Some(genome), genome: chromosome -> sequence text
    is_male_reference, is_female_sample, skip_low, fix_gc, fix_edge, fix_rmask,
    \* locals of combine_probes
    pc,                 \* "start", "loop", "done", "failed" ("idle": not running)
    cnarr1, columns, is_chr_x, is_chr_y, flat_coverage, edge_bias,
    all_depths, all_coverages,
    nread,              \* number of files read so far
    result,             \* the returned table, None before the return
    \* observation of the run
    trace,              \* the calls made so far, in order: <<operation, sample index>>
    history,            \* per corrected sample: its log2 after each stage
    \* the composition scanner run on its own
    subseq, gc_lo, fasta_stats

args == <<filenames, fa_fname, is_male_reference, is_female_sample,
          skip_low, fix_gc, fix_edge, fix_rmask>>
locals == <<pc, cnarr1, columns, is_chr_x, is_chr_y, flat_coverage, edge_bias,
            all_depths, all_coverages, nread, result, trace, history>>
scanner == <<subseq, gc_lo, fasta_stats>>
vars == <<args, locals, scanner>>

\* Python's None; a value that may be None is <<>> or <<value>>
None == <<>>

Some(x) == <<x>>

----------------------------------------------------------------------------
(* Bounds of the model *)

MaxBins == 2

MaxFiles == 3

MaxLen == 3

BinSize == 2

----------------------------------------------------------------------------
(* Constants of cnvlib.params *)

NULL_LOG2_COVERAGE == -20

MIN_REF_COVERAGE == -5

INSERT_SIZE == 250

----------------------------------------------------------------------------
(* Numbers *)

L(x) == 2 * x

Frac(n, d) == [num |-> n, den |-> d]

FracLess(f, g) == f.num * g.den < g.num * f.den

FracEq(f, g) == f.num * g.den = g.num * f.den

Abs(x) == IF x < 0 THEN -x ELSE x

Min(a, b) == IF a < b THEN a ELSE b

Max(a, b) == IF a < b THEN b ELSE a

IntLess(a, b) == a < b

\* Twice the median of a non-empty sequence of integers (np.median).
Median2(a) ==
    LET s == SortSeq(a, IntLess)
        n == Len(s)
    IN  IF n % 2 = 1 THEN 2 * s[(n + 1) \div 2]
        ELSE s[n \div 2] + s[n \div 2 + 1]

\* 2^x in the depth fixed point, for NULL_LOG2_COVERAGE <= x (np.exp2).
exp2(x) == 2 ^ (x - NULL_LOG2_COVERAGE)

\* A raw depth in the depth fixed point.
DepthFix(d) == d * 2 ^ (0 - NULL_LOG2_COVERAGE)

----------------------------------------------------------------------------
(* Tables (CopyNumArray): data is the column record, a column is a sequence *)

len(cnarr) == Len(cnarr.data.chromosome)

Has(cnarr, col) == col \in DOMAIN cnarr.data

NoColumns == [c \in {} |-> <<>>]

Rows(cnarr) == 1 .. len(cnarr)

chr_x_label == "chrX"

chr_y_label == "chrY"

----------------------------------------------------------------------------
(* Sequence composition: calculate_gc_lo, get_fasta_stats *)

Bases == {"a", "c", "g", "t", "A", "C", "G", "T", "N"}

\* str.count of a one-character pattern
count(s, ch) == Cardinality({i \in 1 .. Len(s) : s[i] = ch})

calculate_gc_lo_casefold(s) ==
    LET up(ch) == CASE ch = "a" -> "A" [] ch = "c" -> "C" [] ch = "g" -> "G"
                    [] ch = "t" -> "T" [] OTHER -> ch
        u == [i \in 1 .. Len(s) |-> up(s[i])]
        cnt_at == count(u, "A") + count(u, "T")
        cnt_gc == count(u, "G") + count(u, "C")
        tot == cnt_at + cnt_gc
    IN  IF tot = 0 THEN <<Frac(0, 1), Frac(0, 1)>>
        ELSE <<Frac(cnt_gc, tot), Frac(0, tot)>>

calculate_gc_lo(s) ==
    LET cnt_at_lo == count(s, "a") + count(s, "t")
        cnt_at_up == count(s, "A") + count(s, "T")
        cnt_gc_lo == count(s, "g") + count(s, "c")
        cnt_gc_up == count(s, "G") + count(s, "C")
        tot == cnt_gc_up + cnt_gc_lo + cnt_at_up + cnt_at_lo
    IN  IF tot = 0 THEN <<Frac(0, 1), Frac(0, 1)>>
        ELSE <<Frac(cnt_gc_lo + cnt_gc_up, tot), Frac(cnt_at_lo + cnt_gc_lo, tot)>>

\* ngfrills.fasta_extract_regions: the text of each bin, in bin order; a bin
\* reaching past the end of its chromosome yields the part that exists.
fasta_extract_regions(fa, cnarr) ==
    [i \in Rows(cnarr) |->
        LET text == fa[cnarr.data.chromosome[i]]
        IN  SubSeq(text, cnarr.data.start[i] + 1, Min(cnarr.data.end[i], Len(text)))]

get_fasta_stats(cnarr, fa) ==
    LET gc_rm_vals == [i \in Rows(cnarr) |->
                          calculate_gc_lo(fasta_extract_regions(fa, cnarr)[i])]
    IN  <<[i \in Rows(cnarr) |-> gc_rm_vals[i][1]],
          [i \in Rows(cnarr) |-> gc_rm_vals[i][2]]>>

----------------------------------------------------------------------------
(* Collaborators outside reference.py, modelled from their contracts *)

\* CopyNumArray.guess_xx: the karyotype the table's chrX coverage suggests.
guess_xx(cnarr) == cnarr.xx

\* CopyNumArray.expect_flat_log2: XY reference: chrX -1, chrY -1;
\* XX reference: chrX 0, chrY -1; autosomes 0.
expect_flat_log2(cnarr, male_reference) ==
    [i \in Rows(cnarr) |->
        IF cnarr.data.chromosome[i] = chr_y_label
           \/ (male_reference /\ cnarr.data.chromosome[i] = chr_x_label)
        THEN L(-1) ELSE L(0)]

\* The bins low-coverage filtering keeps.
NotLow(v) == v > L(NULL_LOG2_COVERAGE - MIN_REF_COVERAGE)

\* CopyNumArray.center_all: subtract the median log2, the median being taken
\* over the bins above the low-coverage floor when skip is set.
center_all(log2, skip) ==
    LET vals == IF skip THEN SelectSeq(log2, NotLow) ELSE log2
        mid == IF vals = <<>> THEN 0 ELSE Median2(vals) \div 2
    IN  [i \in 1 .. Len(log2) |-> log2[i] - mid]

\* smoothing.rolling_median: centred window of 2*wing+1 values over the signal
\* padded at both ends with its mirrored wings.
rolling_median(s, wing) ==
    LET n == Len(s)
        padded == [k \in 1 .. n + 2 * wing |->
                      IF k <= wing THEN s[wing - k + 1]
                      ELSE IF k <= wing + n THEN s[k - wing]
                      ELSE s[n - (k - wing - n) + 1]]
    IN  [r \in 1 .. n |-> Median2(SubSeq(padded, r, r + 2 * wing)) \div 2]

\* fix.center_by_window: order the bins by the covariate (ties in bin order),
\* take the rolling median of log2 in that order over a window of
\* fraction * len bins, subtract it.
center_by_window(log2, fraction, sort_key) ==
    LET n == Len(log2)
        before(i, j) == FracLess(sort_key[i], sort_key[j])
                        \/ (FracEq(sort_key[i], sort_key[j]) /\ i < j)
        order == SortSeq([i \in 1 .. n |-> i], before)
        rank == [i \in 1 .. n |-> CHOOSE r \in 1 .. n : order[r] = i]
        wing == (n * fraction.num + 2 * fraction.den - 1) \div (2 * fraction.den)
        biases == rolling_median([r \in 1 .. n |-> log2[order[r]]], wing)
    IN  [i \in 1 .. n |-> log2[i] - biases[rank[i]]]

\* fix.get_edge_bias: the share of a bin's coverage lost at its two edges,
\* from the bin size and the insert size.
get_edge_bias(cnarr, insert_size) ==
    [i \in Rows(cnarr) |->
        LET size == cnarr.data.end[i] - cnarr.data.start[i]
        IN  IF size >= insert_size THEN Frac(insert_size, 2 * size)
            ELSE Frac(2 * insert_size - size, 2 * insert_size)]

\* descriptives.biweight_location, at twice the resolution of its input: the
\* estimate starts at the median and is moved by the biweight-weighted mean
\* deviation; with at most two values, or any values placed symmetrically
\* about the median, that deviation is zero and the median is returned.
biweight_location(a) == Median2(a)

\* descriptives.biweight_midvariance, at the resolution of the centre: a
\* non-negative dispersion about the centre, 0 for a constant column.
biweight_midvariance(a, initial) ==
    Median2([k \in 1 .. Len(a) |-> Abs(2 * a[k] - initial)]) \div 2

----------------------------------------------------------------------------
(* combine_probes: the pieces of its body *)

WithLog2(cnarr, v) == [cnarr EXCEPT !.data.log2 = v]

reference_id == "reference"

empty_reference_by_gc(cnarr, fa) ==
    LET col_names == {"chromosome", "start", "end", "gene", "log2", "depth"}
                     \cup (IF Has(cnarr, "gc") \/ fa # None THEN {"gc"} ELSE {})
                     \cup (IF Has(cnarr, "gc") \/ fa # None THEN {"rmask"} ELSE {})
                     \cup {"spread"}
    IN  [data |-> [c \in col_names |-> <<>>], sample_id |-> reference_id]

\* lines 55-61: the empty table returned for an empty primary table
empty_reference(cnarr, fa) ==
    LET col_names == {"chromosome", "start", "end", "gene", "log2", "depth"}
                     \cup (IF Has(cnarr, "gc") \/ fa # None THEN {"gc"} ELSE {})
                     \cup (IF fa # None THEN {"rmask"} ELSE {})
                     \cup {"spread"}
    IN  [data |-> [c \in col_names |-> <<>>], sample_id |-> reference_id]

composition_columns_unflagged(cnarr, fa, want_gc, want_rmask) ==
    IF fa # None /\ (want_rmask \/ want_gc)
    THEN LET stats == get_fasta_stats(cnarr, fa[1])
         IN  [cols |-> [c \in {"gc", "rmask"} |->
                           IF c = "gc" THEN stats[1] ELSE stats[2]],
              scans |-> 1]
    ELSE IF Has(cnarr, "gc") /\ want_gc
    THEN [cols |-> [c \in {"gc"} |-> cnarr.data.gc], scans |-> 0]
    ELSE [cols |-> NoColumns, scans |-> 0]

\* lines 64-73: the covariate columns, and the number of composition scans made
composition_columns(cnarr, fa, want_gc, want_rmask) ==
    IF fa # None /\ (want_rmask \/ want_gc)
    THEN LET stats == get_fasta_stats(cnarr, fa[1])
             names == (IF want_gc THEN {"gc"} ELSE {})
                      \cup (IF want_rmask THEN {"rmask"} ELSE {})
         IN  [cols |-> [c \in names |-> IF c = "gc" THEN stats[1] ELSE stats[2]],
              scans |-> 1]
    ELSE IF Has(cnarr, "gc") /\ want_gc
    THEN [cols |-> [c \in {"gc"} |-> cnarr.data.gc], scans |-> 0]
    ELSE [cols |-> NoColumns, scans |-> 0]

shift_sex_chroms_by_reference(cnarr, k, female_sample, male_reference, flat, chr_x, chr_y) ==
    LET guessed == female_sample = None
        is_xx == IF guessed THEN guess_xx(cnarr) ELSE female_sample[1]
        added == [i \in Rows(cnarr) |-> cnarr.data.log2[i] + flat[i]]
        shifted == [i \in Rows(cnarr) |->
                       IF is_xx
                       THEN IF chr_y[i] THEN L(-1) ELSE added[i]
                       ELSE IF (chr_x[i] \/ chr_y[i]) /\ ~male_reference
                            THEN added[i] + L(1) ELSE added[i]]
    IN  [log2 |-> shifted, is_xx |-> is_xx,
         events |-> (IF guessed THEN <<<<"guess_xx", k>>>> ELSE <<>>)
                    \o <<<<"add_flat", k>>, <<"shift_sex", k>>>>]

shift_sex_chroms_guessing(cnarr, k, female_sample, male_reference, flat, chr_x, chr_y) ==
    LET guessed == TRUE
        is_xx == guess_xx(cnarr)
        added == [i \in Rows(cnarr) |-> cnarr.data.log2[i] + flat[i]]
        shifted == [i \in Rows(cnarr) |->
                       IF is_xx
                       THEN IF chr_y[i] THEN L(-1) ELSE added[i]
                       ELSE IF chr_x[i] \/ chr_y[i]
                            THEN added[i] + L(1) ELSE added[i]]
    IN  [log2 |-> shifted, is_xx |-> is_xx,
         events |-> <<<<"guess_xx", k>>, <<"add_flat", k>>, <<"shift_sex", k>>>>]

\* lines 79-107: the sample's log2 after the flat baseline and the sex shift.
\* male_reference acts only through flat (line 78).
shift_sex_chroms(cnarr, k, female_sample, male_reference, flat, chr_x, chr_y) ==
    LET guessed == female_sample = None
        is_xx == IF guessed THEN guess_xx(cnarr) ELSE female_sample[1]
        added == [i \in Rows(cnarr) |-> cnarr.data.log2[i] + flat[i]]
        shifted == [i \in Rows(cnarr) |->
                       IF is_xx
                       THEN IF chr_y[i] THEN L(-1) ELSE added[i]
                       ELSE IF chr_x[i] \/ chr_y[i]
                            THEN added[i] + L(1) ELSE added[i]]
    IN  [log2 |-> shifted, is_xx |-> is_xx,
         events |-> (IF guessed THEN <<<<"guess_xx", k>>>> ELSE <<>>)
                    \o <<<<"add_flat", k>>, <<"shift_sex", k>>>>]

\* lines 115-116: most bins have no coverage
mostly_uncovered(log2) ==
    Cardinality({i \in 1 .. Len(log2) :
                    log2[i] > L(NULL_LOG2_COVERAGE - MIN_REF_COVERAGE)})
        <= Len(log2) \div 2

window == Frac(1, 10)

bias_correct_coverage_rmask_first(cnarr, k, cols, flat, chr_x, chr_y, edge) ==
    LET centered == center_all(cnarr.data.log2, skip_low)
        sex == shift_sex_chroms(WithLog2(cnarr, centered), k, is_female_sample,
                                is_male_reference, flat, chr_x, chr_y)
        skip == mostly_uncovered(sex.log2)
        do_gc == ~skip /\ "gc" \in DOMAIN cols /\ fix_gc
        do_rmask == ~skip /\ "rmask" \in DOMAIN cols /\ fix_rmask
        do_edge == ~skip /\ fix_edge
        l1 == IF do_rmask THEN center_by_window(sex.log2, window, cols.rmask) ELSE sex.log2
        l2 == IF do_gc THEN center_by_window(l1, window, cols.gc) ELSE l1
        l3 == IF do_edge THEN center_by_window(l2, window, edge) ELSE l2
    IN  [log2 |-> l3,
         cnarr |-> WithLog2(cnarr, sex.log2),
         stages |-> [input |-> cnarr.data.log2, centered |-> centered,
                     normalized |-> sex.log2, is_xx |-> sex.is_xx,
                     warned |-> skip, corrected |-> l3],
         events |-> <<<<"center_all", k>>>> \o sex.events \o <<<<"check", k>>>>
                    \o (IF skip THEN <<<<"warn", k>>>> ELSE <<>>)
                    \o (IF do_rmask THEN <<<<"rmask", k>>>> ELSE <<>>)
                    \o (IF do_gc THEN <<<<"gc", k>>>> ELSE <<>>)
                    \o (IF do_edge THEN <<<<"edge", k>>>> ELSE <<>>)]

\* lines 110-129: one sample's corrected log2; cnarr is the table as the
\* in-place steps (center_all, shift_sex_chroms) leave it.
bias_correct_coverage(cnarr, k, cols, flat, chr_x, chr_y, edge) ==
    LET centered == center_all(cnarr.data.log2, skip_low)
        sex == shift_sex_chroms(WithLog2(cnarr, centered), k, is_female_sample,
                                is_male_reference, flat, chr_x, chr_y)
        skip == mostly_uncovered(sex.log2)
        do_gc == ~skip /\ "gc" \in DOMAIN cols /\ fix_gc
        do_rmask == ~skip /\ "rmask" \in DOMAIN cols /\ fix_rmask
        do_edge == ~skip /\ fix_edge
        l1 == IF do_gc THEN center_by_window(sex.log2, window, cols.gc) ELSE sex.log2
        l2 == IF do_rmask THEN center_by_window(l1, window, cols.rmask) ELSE l1
        l3 == IF do_edge THEN center_by_window(l2, window, edge) ELSE l2
    IN  [log2 |-> l3,
         cnarr |-> WithLog2(cnarr, sex.log2),
         stages |-> [input |-> cnarr.data.log2, centered |-> centered,
                     normalized |-> sex.log2, is_xx |-> sex.is_xx,
                     warned |-> skip, corrected |-> l3],
         events |-> <<<<"center_all", k>>>> \o sex.events \o <<<<"check", k>>>>
                    \o (IF skip THEN <<<<"warn", k>>>> ELSE <<>>)
                    \o (IF do_gc THEN <<<<"gc", k>>>> ELSE <<>>)
                    \o (IF do_rmask THEN <<<<"rmask", k>>>> ELSE <<>>)
                    \o (IF do_edge THEN <<<<"edge", k>>>> ELSE <<>>)]

depth_row_exp2(cnarr) ==
    [i \in Rows(cnarr) |-> exp2(cnarr.data.log2[i] \div 2)]

\* lines 132-133, 146-147: the sample's depth, or 2^log2 without a depth column
depth_row(cnarr) ==
    IF Has(cnarr, "depth") THEN cnarr.data.depth
    ELSE [i \in Rows(cnarr) |-> exp2(cnarr.data.log2[i] \div 2)]

\* line 132: the depth pool starts with the primary sample's row
initial_depths(flat, depths) == <<depths>>

initial_coverages_zero(flat, corrected) ==
    <<[i \in 1 .. Len(flat) |-> 0], corrected>>

\* line 134: the log2 pool starts with the flat pseudo-sample
initial_coverages(flat, corrected) == <<flat, corrected>>

bins_match_by_coordinates(a, b) ==
    /\ len(a) = len(b)
    /\ \A i \in Rows(a) : a.data.chromosome[i] = b.data.chromosome[i]
    /\ \A i \in Rows(a) : a.data.start[i] = b.data.start[i]
    /\ \A i \in Rows(a) : a.data.end[i] = b.data.end[i]

\* lines 139-143: bin information should match across all files
bins_match(a, b) ==
    /\ len(a) = len(b)
    /\ \A i \in Rows(a) : a.data.chromosome[i] = b.data.chromosome[i]
    /\ \A i \in Rows(a) : a.data.start[i] = b.data.start[i]
    /\ \A i \in Rows(a) : a.data.end[i] = b.data.end[i]
    /\ \A i \in Rows(a) : a.data.gene[i] = b.data.gene[i]

\* column b of the vstack of the pooled rows
column(rows, b) == [k \in 1 .. Len(rows) |-> rows[k][b]]

\* lines 152-168: the reference table
reference_table(cnarr, cols, coverages, depths) ==
    LET cvg_centers == [b \in Rows(cnarr) |-> biweight_location(column(coverages, b))]
        depth_centers == [b \in Rows(cnarr) |-> biweight_location(column(depths, b))]
        spreads == [b \in Rows(cnarr) |->
                       biweight_midvariance(column(coverages, b), cvg_centers[b])]
        pooled == [chromosome |-> cnarr.data.chromosome,
                   start |-> cnarr.data.start,
                   end |-> cnarr.data.end,
                   gene |-> cnarr.data.gene,
                   log2 |-> cvg_centers,
                   depth |-> depth_centers,
                   spread |-> spreads]
    IN  [data |-> pooled @@ cols, sample_id |-> reference_id]

----------------------------------------------------------------------------
(* The inputs the runs are drawn from *)

Chroms == <<"chr1", chr_x_label, chr_y_label>>

ChromRank(c) == CHOOSE r \in 1 .. Len(Chroms) : Chroms[r] = c

\* bin layouts over the chromosomes cs, sorted by genomic position: the
\* chromosomes in genome order, the bins of one chromosome tiling it from 0
LayoutsOn(cs) ==
    UNION {{ch \in [1 .. n -> cs] :
               \A i \in 1 .. n - 1 : ChromRank(ch[i]) <= ChromRank(ch[i + 1])}
           : n \in 0 .. MaxBins}

Layouts == LayoutsOn({Chroms[r] : r \in 1 .. Len(Chroms)})

StartOf(ch, i) == BinSize * Cardinality({j \in 1 .. i - 1 : ch[j] = ch[i]})

\* whole log2 values a coverage file may carry: no coverage, neutral
LogVals == {NULL_LOG2_COVERAGE, 0}

FileDepth(i) == DepthFix(10 * i)

FileGc(i) == Frac(1, i + 1)

\* a coverage table: layout ch, whole log2 values lg, optional depth and gc
\* columns, and the karyotype its chrX coverage suggests
Cna(ch, lg, has_depth, has_gc, xx) ==
    LET n == Len(ch)
        base == [chromosome |-> ch,
                 start |-> [i \in 1 .. n |-> StartOf(ch, i)],
                 end |-> [i \in 1 .. n |-> StartOf(ch, i) + BinSize],
                 gene |-> [i \in 1 .. n |-> "G"],
                 log2 |-> [i \in 1 .. n |-> L(lg[i])]]
        depth == IF has_depth THEN [c \in {"depth"} |-> [i \in 1 .. n |-> FileDepth(i)]]
                 ELSE NoColumns
        gc == IF has_gc THEN [c \in {"gc"} |-> [i \in 1 .. n |-> FileGc(i)]]
              ELSE NoColumns
    IN  [data |-> base @@ depth @@ gc, xx |-> xx]

\* tables over the layouts, log2 values from vals
TablesOver(layouts, vals, depths, gcs, xxs) ==
    UNION {{Cna(ch, lg, d, g, x) : lg \in [1 .. Len(ch) -> vals],
                                   d \in depths, g \in gcs, x \in xxs}
           : ch \in layouts}

\* tables with the layout of p: another sample of the same bins
SameBins(p, vals, depths, xxs) ==
    {[data |-> [c \in DOMAIN q.data \ {"gc"} |->
                   IF c \in {"chromosome", "start", "end", "gene"}
                   THEN p.data[c] ELSE q.data[c]],
      xx |-> q.xx]
     : q \in TablesOver({p.data.chromosome}, vals, depths, {FALSE}, xxs)}

OtherChrom(c) == Chroms[(ChromRank(c) % Len(Chroms)) + 1]

\* a table that differs from p in the gene of its first row
OtherGene(p) == {[p EXCEPT !.data.gene[i] = "Background"] : i \in {1} \cap Rows(p)}

\* tables that differ from p: in one identity field of one row, or in length
OtherBins(p) ==
    {[p EXCEPT !.data.chromosome[i] = OtherChrom(@)] : i \in Rows(p)}
    \cup {[p EXCEPT !.data.start[i] = @ + 1] : i \in Rows(p)}
    \cup {[p EXCEPT !.data.end[i] = @ + 1] : i \in Rows(p)}
    \cup {[p EXCEPT !.data.gene[i] = "Background"] : i \in Rows(p)}
    \cup {[data |-> [c \in DOMAIN p.data |-> SubSeq(p.data[c], 1, len(p) - 1)],
           xx |-> p.xx] : i \in {1} \cap Rows(p)}
    \cup {[data |-> [c \in DOMAIN p.data |-> p.data[c] \o <<p.data[c][1]>>],
           xx |-> p.xx] : i \in {1} \cap Rows(p)}

\* the genome behind fa_fname
Genome == [c \in {Chroms[r] : r \in 1 .. Len(Chroms)} |->
              CASE c = "chr1" -> <<"G", "c", "a", "T", "N">>
                [] c = chr_x_label -> <<"N", "N", "g", "C">>
                [] OTHER -> <<"a", "t">>]

Strings == UNION {[1 .. n -> Bases] : n \in 0 .. MaxLen}

TypeInit ==
    /\ pc = "start"
    /\ cnarr1 = None /\ columns = NoColumns
    /\ is_chr_x = <<>> /\ is_chr_y = <<>>
    /\ flat_coverage = <<>> /\ edge_bias = <<>>
    /\ all_depths = <<>> /\ all_coverages = <<>>
    /\ nread = 0 /\ result = None
    /\ trace = <<>> /\ history = <<>>

ScannerIdle == subseq = <<>> /\ gc_lo = None /\ fasta_stats = None

\* the two tables name the same bins, row by row
SameLayout(a, b) ==
    /\ len(a) = len(b)
    /\ \A i \in Rows(a) :
          <<a.data.chromosome[i], a.data.start[i], a.data.end[i], a.data.gene[i]>>
          = <<b.data.chromosome[i], b.data.start[i], b.data.end[i], b.data.gene[i]>>

\* the additional files a run may name after primary table p: for an empty
\* p, p again or a table with one bin; else a table of same or of other
Additional(p, same, other) ==
    IF len(p) = 0
    THEN {p, Cna(<<"chr1">>, <<0>>, TRUE, FALSE, TRUE)}
    ELSE same \cup other

\* the file lists of up to n files that start with p; a file that follows a
\* file with other bins is never read, and is p again
RECURSIVE FileLists(_, _, _, _)
FileLists(n, p, same, other) ==
    IF n <= 1 THEN {<<p>>}
    ELSE LET shorter == FileLists(n - 1, p, same, other)
         IN  shorter \cup
             UNION {{Append(fs, q) :
                        q \in IF \A k \in 2 .. n - 1 : SameLayout(p, fs[k])
                              THEN Additional(p, same, other) ELSE {p}}
                    : fs \in {f \in shorter : Len(f) = n - 1}}

\* runs over every bin layout, every way another file can differ from it, and
\* every combination of optional columns and covariate flags
InitLayouts ==
    /\ TypeInit /\ ScannerIdle
    /\ fa_fname \in {None, Some(Genome)}
    /\ is_male_reference = FALSE
    /\ is_female_sample = None
    /\ skip_low = FALSE
    /\ fix_gc \in BOOLEAN /\ fix_edge \in BOOLEAN /\ fix_rmask \in BOOLEAN
    /\ \E p \in TablesOver(Layouts, {0}, BOOLEAN, BOOLEAN, {TRUE}) :
          filenames \in FileLists(MaxFiles, p, SameBins(p, {0}, {TRUE}, {FALSE}),
                                  OtherBins(p))

\* runs over every coverage level and every combination of correction flags
InitCorrections ==
    /\ TypeInit /\ ScannerIdle
    /\ fa_fname \in {None, Some(Genome)}
    /\ is_male_reference = FALSE
    /\ is_female_sample = None
    /\ skip_low \in BOOLEAN
    /\ fix_gc \in BOOLEAN /\ fix_edge \in BOOLEAN /\ fix_rmask \in BOOLEAN
    /\ \E p \in TablesOver(LayoutsOn({"chr1"}), LogVals, BOOLEAN, BOOLEAN, {TRUE}) :
          filenames \in FileLists(MaxFiles, p,
                                  SameBins(p, {NULL_LOG2_COVERAGE}, {FALSE}, {TRUE})
                                      \cup SameBins(p, {0}, {TRUE}, {TRUE}),
                                  OtherGene(p))

\* runs over every sample sex, reference sex and chromosome
InitSexes ==
    /\ TypeInit /\ ScannerIdle
    /\ fa_fname = Some(Genome)
    /\ is_male_reference \in BOOLEAN
    /\ is_female_sample \in {None, Some(TRUE), Some(FALSE)}
    /\ skip_low = FALSE
    /\ fix_gc \in BOOLEAN /\ fix_edge = fix_gc /\ fix_rmask = fix_gc
    /\ \E p \in TablesOver(Layouts, LogVals, {TRUE}, {FALSE}, BOOLEAN) :
          filenames \in FileLists(MaxFiles, p, SameBins(p, {0}, {TRUE}, BOOLEAN),
                                  OtherGene(p))

Init == InitLayouts

----------------------------------------------------------------------------
(* combine_probes, step by step *)

\* lines 51-61: the primary table is empty
LoadPrimaryEmpty ==
    /\ pc = "start"
    /\ len(filenames[1]) = 0
    /\ cnarr1' = filenames[1]
    /\ nread' = 1
    /\ trace' = trace \o <<<<"load", 1>>>>
    /\ result' = Some(empty_reference(filenames[1], fa_fname))
    /\ pc' = "done"
    /\ UNCHANGED <<args, scanner, columns, is_chr_x, is_chr_y, flat_coverage,
                   edge_bias, all_depths, all_coverages, history>>

\* lines 51-134: the primary table, its covariates, the start of both pools
LoadPrimary ==
    /\ pc = "start"
    /\ len(filenames[1]) > 0
    /\ LET read == filenames[1]
           comp == composition_columns(read, fa_fname, fix_gc, fix_rmask)
           chr_x == [i \in Rows(read) |-> read.data.chromosome[i] = chr_x_label]
           chr_y == [i \in Rows(read) |-> read.data.chromosome[i] = chr_y_label]
           flat == expect_flat_log2(read, is_male_reference)
           edge == get_edge_bias(read, INSERT_SIZE)
           depths == depth_row(read)
           fixed == bias_correct_coverage(read, 1, comp.cols, flat, chr_x, chr_y, edge)
       IN  /\ columns' = comp.cols
           /\ is_chr_x' = chr_x
           /\ is_chr_y' = chr_y
           /\ flat_coverage' = flat
           /\ edge_bias' = edge
           /\ all_depths' = initial_depths(flat, depths)
           /\ all_coverages' = initial_coverages(flat, fixed.log2)
           /\ cnarr1' = fixed.cnarr
           /\ history' = history \o <<fixed.stages>>
           /\ trace' = trace \o <<<<"load", 1>>>>
                       \o (IF comp.scans > 0 THEN <<<<"scan", 1>>>> ELSE <<>>)
                       \o fixed.events
    /\ nread' = 1
    /\ pc' = "loop"
    /\ UNCHANGED <<args, scanner, result>>

\* lines 135-145: the next table does not have the primary table's bins
LoadNextMismatch ==
    /\ pc = "loop"
    /\ nread < Len(filenames)
    /\ ~bins_match(cnarr1, filenames[nread + 1])
    /\ nread' = nread + 1
    /\ trace' = trace \o <<<<"load", nread + 1>>, <<"raise", nread + 1>>>>
    /\ pc' = "failed"
    /\ UNCHANGED <<args, scanner, cnarr1, columns, is_chr_x, is_chr_y, flat_coverage,
                   edge_bias, all_depths, all_coverages, result, history>>

\* lines 135-148: the next table is pooled
LoadNext ==
    /\ pc = "loop"
    /\ nread < Len(filenames)
    /\ bins_match(cnarr1, filenames[nread + 1])
    /\ LET cnarrx == filenames[nread + 1]
           fixed == bias_correct_coverage(cnarrx, nread + 1, columns, flat_coverage,
                                          is_chr_x, is_chr_y, edge_bias)
       IN  /\ all_depths' = Append(all_depths, depth_row(cnarrx))
           /\ all_coverages' = Append(all_coverages, fixed.log2)
           /\ history' = history \o <<fixed.stages>>
           /\ trace' = trace \o <<<<"load", nread + 1>>>> \o fixed.events
    /\ nread' = nread + 1
    /\ UNCHANGED <<args, scanner, pc, cnarr1, columns, is_chr_x, is_chr_y,
                   flat_coverage, edge_bias, result>>

\* lines 149-168: pool the rows and return the reference
Pool ==
    /\ pc = "loop"
    /\ nread = Len(filenames)
    /\ result' = Some(reference_table(cnarr1, columns, all_coverages, all_depths))
    /\ trace' = trace \o <<<<"pool", nread>>>>
    /\ pc' = "done"
    /\ UNCHANGED <<args, scanner, cnarr1, columns, is_chr_x, is_chr_y, flat_coverage,
                   edge_bias, all_depths, all_coverages, nread, history>>

Next == LoadPrimaryEmpty \/ LoadPrimary \/ LoadNextMismatch \/ LoadNext \/ Pool

Spec == Init /\ [][Next]_vars

SpecCorrections == InitCorrections /\ [][Next]_vars

SpecSexes == InitSexes /\ [][Next]_vars

----------------------------------------------------------------------------
(* The composition scanner on its own: every text of up to MaxLen characters *)

\* MaxBins bins of BinSize tiling chr1 from 0
ScanBins == Cna([i \in 1 .. MaxBins |-> "chr1"], [i \in 1 .. MaxBins |-> 0],
                FALSE, FALSE, TRUE)

\* the genome whose chr1 is the text s
ScanGenome(s) == [c \in {"chr1"} |-> s]

InitScanner ==
    /\ subseq \in Strings /\ gc_lo = None /\ fasta_stats = None
    /\ pc = "idle"
    /\ filenames = <<>> /\ fa_fname = None
    /\ is_male_reference = FALSE /\ is_female_sample = None /\ skip_low = FALSE
    /\ fix_gc = FALSE /\ fix_edge = FALSE /\ fix_rmask = FALSE
    /\ cnarr1 = None /\ columns = NoColumns
    /\ is_chr_x = <<>> /\ is_chr_y = <<>>
    /\ flat_coverage = <<>> /\ edge_bias = <<>>
    /\ all_depths = <<>> /\ all_coverages = <<>>
    /\ nread = 0 /\ result = None
    /\ trace = <<>> /\ history = <<>>

\* calculate_gc_lo(subseq)
CalculateGcLo ==
    /\ pc = "idle" /\ gc_lo = None
    /\ gc_lo' = Some(calculate_gc_lo(subseq))
    /\ UNCHANGED <<args, locals, subseq, fasta_stats>>

\* get_fasta_stats over the bins of a genome whose text is subseq
GetFastaStats ==
    /\ pc = "idle" /\ fasta_stats = None
    /\ fasta_stats' = Some(get_fasta_stats(ScanBins, ScanGenome(subseq)))
    /\ UNCHANGED <<args, locals, subseq, gc_lo>>

NextScanner == CalculateGcLo \/ GetFastaStats

SpecScanner == InitScanner /\ [][NextScanner]_vars

----------------------------------------------------------------------------
(* Properties *)

Primary == filenames[1]

Identity == {"chromosome", "start", "end", "gene"}

Optional == {"gc", "rmask"}

Floor == L(NULL_LOG2_COVERAGE - MIN_REF_COVERAGE)

\* the calls of the trace made for sample k, in order
EventsOf(k) == SelectSeq(trace, LAMBDA e : e[2] = k)

OpsOf(k) == {EventsOf(k)[j][1] : j \in 1 .. Len(EventsOf(k))}

\* the order the operations on one sample are specified in
StepRank(op) ==
    CASE op = "load" -> 0 [] op = "raise" -> 1 [] op = "scan" -> 2
      [] op = "center_all" -> 3 [] op = "guess_xx" -> 4 [] op = "add_flat" -> 5
      [] op = "shift_sex" -> 6 [] op = "check" -> 7 [] op = "warn" -> 8
      [] op = "gc" -> 9 [] op = "rmask" -> 10 [] op = "edge" -> 11
      [] OTHER -> 12

\* C1 as stated: whenever an additional file differs from the primary table in
\* its bins, the build does not return a table.
C1_AnyMismatchIsFatal ==
    pc = "done" => \A k \in 2 .. Len(filenames) : SameLayout(Primary, filenames[k])

\* C1, amended: with a non-empty primary table, a build that returns has only
\* files with the primary table's bins; a build fails exactly at the first
\* file whose bin count or whose chromosome, start, end or gene at some row
\* differs, returns no table, and has pooled one log2 row and one depth row
\* for each file read before it and none for the failing file.
C1_MismatchIsFatal ==
    /\ (pc = "done" /\ len(Primary) > 0)
           => \A k \in 2 .. Len(filenames) : SameLayout(Primary, filenames[k])
    /\ pc = "failed"
           => /\ result = None
              /\ nread >= 2
              /\ ~SameLayout(Primary, filenames[nread])
              /\ \A k \in 2 .. nread - 1 : SameLayout(Primary, filenames[k])
              /\ Len(all_coverages) = nread
              /\ Len(all_depths) = nread - 1
              /\ Len(history) = nread - 1
    /\ (pc = "loop" /\ nread < Len(filenames)
        /\ ~SameLayout(Primary, filenames[nread + 1]))
           => ~ENABLED LoadNext

C1_Witness ==
    /\ pc = "failed" /\ nread = 3
    /\ len(filenames[3]) = len(Primary)
    /\ \E i \in Rows(Primary) :
          /\ filenames[3].data.start[i] # Primary.data.start[i]
          /\ filenames[3].data.end[i] = Primary.data.end[i]

\* C2: an empty primary table ends the build at once with an empty table named
\* "reference", no further file read and nothing raised; with a sequence source
\* its columns are chromosome, start, end, gene, log2, depth, gc, rmask,
\* spread; without one there is no rmask, and gc only if the primary has gc.
C2_EmptyPrimary ==
    (pc # "start" /\ pc # "idle" /\ len(Primary) = 0)
        => /\ pc = "done"
           /\ nread = 1
           /\ trace = <<<<"load", 1>>>>
           /\ result # None
           /\ result[1].sample_id = "reference"
           /\ \A c \in DOMAIN result[1].data : result[1].data[c] = <<>>
           /\ DOMAIN result[1].data =
                  Identity \cup {"log2", "depth", "spread"}
                  \cup (IF fa_fname # None THEN {"gc", "rmask"}
                        ELSE IF Has(Primary, "gc") THEN {"gc"} ELSE {})

C2_Witness ==
    /\ pc = "done" /\ len(Primary) = 0 /\ Len(filenames) >= 2
    /\ len(filenames[2]) > 0
    /\ fa_fname # None /\ ~fix_gc
    /\ "rmask" \in DOMAIN result[1].data

\* C3 as stated: a sample's corrections are skipped, with a warning, exactly
\* when more than half of its bins are at or below the floor after the flat
\* baseline and the sex shift; a skipped sample's normalized log2 is pooled.
C3_SkippedIffMostBinsLow ==
    \A k \in 1 .. Len(history) :
        LET h == history[k]
            low == Cardinality({i \in 1 .. Len(h.normalized) : h.normalized[i] <= Floor})
        IN  /\ h.warned <=> 2 * low > Len(h.normalized)
            /\ h.warned => h.corrected = h.normalized
            /\ all_coverages[k + 1] = h.corrected

\* C4 as stated: a male sample's chrX and chrY bins end the sex normalization
\* at centered log2 + flat baseline against a male reference and at
\* centered log2 + flat baseline + 1.0 against a female reference; bins of
\* other chromosomes end at centered log2 + flat baseline for every pairing.
C4_MaleShiftByReference ==
    \A k \in 1 .. Len(history) :
        LET h == history[k]
        IN  \A i \in 1 .. Len(h.normalized) :
                IF Primary.data.chromosome[i] \in {chr_x_label, chr_y_label}
                THEN ~h.is_xx =>
                        h.normalized[i] = h.centered[i] + flat_coverage[i]
                                          + (IF is_male_reference THEN 0 ELSE L(1))
                ELSE h.normalized[i] = h.centered[i] + flat_coverage[i]

\* C4, amended: a male sample's chrX and chrY bins end the sex normalization
\* at centered log2 + flat baseline + 1.0 whatever the declared reference sex;
\* bins of other chromosomes end at centered log2 + flat baseline for every
\* pairing of sample sex and reference sex.
C4_MaleShift ==
    \A k \in 1 .. Len(history) :
        LET h == history[k]
        IN  \A i \in 1 .. Len(h.normalized) :
                IF Primary.data.chromosome[i] \in {chr_x_label, chr_y_label}
                THEN ~h.is_xx =>
                        h.normalized[i] = h.centered[i] + flat_coverage[i] + L(1)
                ELSE h.normalized[i] = h.centered[i] + flat_coverage[i]

C4_Witness ==
    /\ is_male_reference
    /\ \E k \in 1 .. Len(history) :
          /\ k = 2 /\ ~history[k].is_xx
          /\ \E i, j \in Rows(Primary) :
                /\ Primary.data.chromosome[i] = chr_x_label
                /\ Primary.data.chromosome[j] = chr_y_label
                /\ history[k].normalized[i] = history[k].centered[i]

\* C5: a female sample, declared or inferred, has every chrY bin at exactly
\* -1.0 after the sex normalization, whatever it held and whatever the
\* reference sex, and its chrX bins at centered log2 + flat baseline; a set
\* override is the sex of every sample and nothing is inferred, an unset one
\* makes every sample's sex the inferred one.
C5_FemaleSample ==
    /\ \A k \in 1 .. Len(history) :
          LET h == history[k]
          IN  /\ h.is_xx = (IF is_female_sample # None THEN is_female_sample[1]
                            ELSE guess_xx(filenames[k]))
              /\ ("guess_xx" \in OpsOf(k)) <=> (is_female_sample = None)
              /\ h.is_xx =>
                    \A i \in 1 .. Len(h.normalized) :
                        /\ Primary.data.chromosome[i] = chr_y_label
                               => h.normalized[i] = L(-1)
                        /\ Primary.data.chromosome[i] = chr_x_label
                               => h.normalized[i] = h.centered[i] + flat_coverage[i]

C5_Witness ==
    /\ is_female_sample = Some(TRUE) /\ is_male_reference
    /\ Len(history) = 2
    /\ ~guess_xx(filenames[2])
    /\ \E i, j \in Rows(Primary) :
          /\ Primary.data.chromosome[i] = chr_x_label
          /\ Primary.data.chromosome[j] = chr_y_label
          /\ history[1].centered[j] + flat_coverage[j] # L(-1)
          /\ history[1].normalized[j] = L(-1)

\* C6: with exactly one non-empty input sample the log2 pool is the flat
\* baseline row and the sample's corrected row, and every bin's reference log2
\* lies between its flat baseline value and the sample's corrected value.
\* (The reference log2 is held at twice the resolution of the rows.)
C6_SingleSample ==
    (pc = "done" /\ Len(filenames) = 1 /\ len(Primary) > 0)
        => /\ all_coverages = <<flat_coverage, history[1].corrected>>
           /\ \A b \in Rows(Primary) :
                 LET flat == expect_flat_log2(Primary, is_male_reference)[b]
                     mine == history[1].corrected[b]
                 IN  /\ 2 * Min(flat, mine) <= result[1].data.log2[b]
                     /\ result[1].data.log2[b] <= 2 * Max(flat, mine)

C6_Witness ==
    /\ pc = "done" /\ Len(filenames) = 1 /\ len(Primary) = MaxBins
    /\ \E b \in Rows(Primary) :
          /\ flat_coverage[b] < history[1].corrected[b]
          /\ 2 * flat_coverage[b] < result[1].data.log2[b]
          /\ result[1].data.log2[b] < 2 * history[1].corrected[b]
    /\ \E b \in Rows(Primary) : flat_coverage[b] # 0

\* the characters of s that are in set cs
CountIn(s, cs) == Cardinality({i \in 1 .. Len(s) : s[i] \in cs})

\* pair r is the (GC fraction, repeat fraction) specified for text s
Composition(s, r) ==
    LET valid == CountIn(s, {"a", "c", "g", "t", "A", "C", "G", "T"})
        gc == CountIn(s, {"g", "c", "G", "C"})
        lower == CountIn(s, {"a", "c", "g", "t"})
    IN  /\ \A j \in 1 .. 2 : r[j].den > 0 /\ 0 <= r[j].num /\ r[j].num <= r[j].den
        /\ IF valid = 0 THEN r[1].num = 0 /\ r[2].num = 0
           ELSE FracEq(r[1], Frac(gc, valid)) /\ FracEq(r[2], Frac(lower, valid))

\* C7: calculate_gc_lo returns (count of g,c,G,C / count of valid bases,
\* count of lowercase a,c,g,t / count of valid bases), both in [0,1], and
\* (0.0, 0.0) for a text with no valid base; get_fasta_stats yields one such
\* pair per bin, in bin order.
C7_Composition ==
    /\ gc_lo # None => Composition(subseq, gc_lo[1])
    /\ fasta_stats # None =>
          /\ Len(fasta_stats[1][1]) = MaxBins /\ Len(fasta_stats[1][2]) = MaxBins
          /\ \A i \in 1 .. MaxBins :
                Composition(SubSeq(subseq, BinSize * (i - 1) + 1,
                                   Min(BinSize * i, Len(subseq))),
                            <<fasta_stats[1][1][i], fasta_stats[1][2][i]>>)

C7_Witness ==
    /\ gc_lo # None /\ fasta_stats # None
    /\ Len(subseq) = MaxLen
    /\ \E i, j, k \in 1 .. Len(subseq) :
          subseq[i] = "g" /\ subseq[j] = "T" /\ subseq[k] = "N"
    /\ gc_lo[1][1].num = 1 /\ gc_lo[1][2].num = 1 /\ gc_lo[1][1].den = 2
    /\ fasta_stats[1][1][1] # fasta_stats[1][1][2]

\* C8: samples are corrected in input order, the primary first, an additional
\* sample only after its layout was found to match; within a sample the steps
\* run in the order flat baseline, sex normalization, no-coverage check, GC,
\* repeat fraction, edge bias; GC runs only if requested and a gc covariate is
\* available, repeat fraction only if requested and an rmask covariate is
\* available, edge only if requested, and unless the check warned each of them
\* then does run.
C8_CorrectionOrder ==
    /\ \A j \in 1 .. Len(trace) - 1 : trace[j][2] <= trace[j + 1][2]
    /\ \A k \in 1 .. nread :
          LET ev == EventsOf(k)
              ops == OpsOf(k)
              gc_ok == fix_gc /\ (fa_fname # None \/ Has(Primary, "gc"))
              rmask_ok == fix_rmask /\ fa_fname # None
              steps == {"center_all", "add_flat", "shift_sex", "check", "warn",
                        "gc", "rmask", "edge"}
          IN  /\ \A j \in 1 .. Len(ev) - 1 :
                    StepRank(ev[j][1]) < StepRank(ev[j + 1][1])
              /\ ops \cap steps # {} =>
                    /\ SameLayout(Primary, filenames[k])
                    /\ {"add_flat", "shift_sex", "check"} \subseteq ops
                    /\ "raise" \notin ops
              /\ "gc" \in ops => gc_ok
              /\ "rmask" \in ops => rmask_ok
              /\ "edge" \in ops => fix_edge
              /\ ("check" \in ops /\ "warn" \notin ops) =>
                    /\ gc_ok => "gc" \in ops
                    /\ rmask_ok => "rmask" \in ops
                    /\ fix_edge => "edge" \in ops
              /\ "warn" \in ops => ops \cap {"gc", "rmask", "edge"} = {}

C8_Witness ==
    /\ nread = 3
    /\ {"gc", "rmask", "edge"} \subseteq OpsOf(1)
    /\ "warn" \in OpsOf(2)
    /\ {"gc", "rmask", "edge"} \subseteq OpsOf(3)

\* the depth-like row specified for the table of one file
DepthLike(f) ==
    IF Has(f, "depth") THEN f.data.depth
    ELSE [i \in Rows(f) |-> exp2(f.data.log2[i] \div 2)]

\* C9 as stated: one depth-like row per input sample in input order, a
\* constant pseudo-sample row prepended, so that with N samples both the
\* reference depth and the reference log2 are pooled over N+1 values.
C9_BothPoolsHavePseudoSample ==
    (pc = "done" /\ len(Primary) > 0)
        => /\ Len(all_coverages) = Len(filenames) + 1
           /\ Len(all_depths) = Len(filenames) + 1
           /\ \A k \in 1 .. Len(filenames) : all_depths[k + 1] = DepthLike(filenames[k])

\* C9, amended: one depth-like row per input sample in input order, the raw
\* depth column when present and otherwise 2^log2 of the log2 as read; the
\* flat-baseline pseudo-sample row is prepended to the log2 pool only, so with
\* N samples the reference log2 is pooled over N+1 values and the reference
\* depth over N values.
C9_DepthPool ==
    (pc = "done" /\ len(Primary) > 0)
        => /\ Len(all_coverages) = Len(filenames) + 1
           /\ all_coverages[1] = expect_flat_log2(Primary, is_male_reference)
           /\ Len(all_depths) = Len(filenames)
           /\ \A k \in 1 .. Len(filenames) : all_depths[k] = DepthLike(filenames[k])
           /\ \A b \in Rows(Primary) :
                 /\ result[1].data.depth[b] = biweight_location(column(all_depths, b))
                 /\ result[1].data.log2[b] = biweight_location(column(all_coverages, b))

C9_Witness ==
    /\ pc = "done" /\ Len(filenames) = 3 /\ len(Primary) = MaxBins
    /\ Has(Primary, "depth") /\ ~Has(filenames[2], "depth")
    /\ all_depths[1] # all_depths[2] /\ all_depths[2] # all_depths[3]

\* what C10 says of a reference built from a non-empty primary table, apart
\* from the comparison with the empty-input path
ReferenceShape ==
    LET ref == result[1]
        scans == SelectSeq(trace, LAMBDA e : e[1] = "scan")
    IN  /\ ref.sample_id = "reference"
        /\ \A c \in Identity : ref.data[c] = Primary.data[c]
                               /\ cnarr1.data[c] = Primary.data[c]
        /\ \A c \in DOMAIN ref.data : Len(ref.data[c]) = len(Primary)
        /\ Identity \cup {"log2", "depth", "spread"} \subseteq DOMAIN ref.data
        /\ DOMAIN ref.data \subseteq Identity \cup {"log2", "depth", "spread"} \cup Optional
        /\ "gc" \in DOMAIN ref.data
              <=> (fix_gc /\ (fa_fname # None \/ Has(Primary, "gc")))
        /\ "rmask" \in DOMAIN ref.data <=> (fix_rmask /\ fa_fname # None)
        /\ Len(scans) <= 1
        /\ \A j \in 1 .. Len(scans) : scans[j][2] = 1

\* C10 as stated: the reference's shape, and its optional columns are those
\* the empty-input path produces for the same sequence source and flags.
C10_OptionalColumnsAsEmptyPath ==
    (pc = "done" /\ len(Primary) > 0)
        => /\ ReferenceShape
           /\ DOMAIN result[1].data \cap Optional
              = DOMAIN empty_reference(Primary, fa_fname).data \cap Optional

\* C10, amended: the reference's shape as stated; its optional columns are
\* among those the empty-input path produces for the same sequence source and
\* primary columns, and are the same set when both GC correction and repeat
\* correction are requested (the empty-input path does not look at the flags).
C10_ReferenceColumns ==
    (pc = "done" /\ len(Primary) > 0)
        => /\ ReferenceShape
           /\ DOMAIN result[1].data \cap Optional
              \subseteq DOMAIN empty_reference(Primary, fa_fname).data
           /\ (fix_gc /\ fix_rmask) =>
                 DOMAIN result[1].data \cap Optional
                 = DOMAIN empty_reference(Primary, fa_fname).data \cap Optional

C10_Witness ==
    /\ pc = "done" /\ len(Primary) = MaxBins /\ Len(filenames) = 3
    /\ fa_fname # None /\ fix_gc /\ fix_rmask
    /\ Has(Primary, "gc")
    /\ result[1].data.gc # Primary.data.gc
    /\ DOMAIN result[1].data \cap Optional = Optional

====
